---- MODULE Spec2Model ----
(***************************************************************************)
(* Model of the Silero VAD segmenter of ahin (src/ahin/vad_fast.py):       *)
(* _SileroVADState and the get_speech_segment wrapper of                   *)
(* VoiceActivityDetectorXNNPACK / VoiceActivityDetectorARMNN; and of the   *)
(* capture / worker / result-handling / playback pipeline of               *)
(* VoiceAssistantFast and VoiceAssistantFaster.                            *)
(*                                                                         *)
(* Audio arrays (numpy float32 vectors) are run-length encoded: an array   *)
(* is a sequence of runs [z, s, n].  A run with z = FALSE is n consecutive *)
(* samples of the input stream starting at stream offset s; a run with     *)
(* z = TRUE is n zero samples produced by flush() padding.  Probabilities  *)
(* and the threshold are in percent; durations are in milliseconds.        *)
(***************************************************************************)
EXTENDS Integers, Sequences, FiniteSets, TLC

VARIABLES
    cfg,              \* threshold, min_silence_samples, min_speech_samples,
                      \* buffer_size_samples (__init__)
    buffer,           \* self._buffer: accumulation buffer
    speech_buf,       \* self._speech_buf: open speech buffer
    segments,         \* self._segments: deque of completed segments
    in_speech,        \* self._in_speech
    silence_samples,  \* self._silence_samples
    hc,               \* self._h/self._c: number of windows folded into the LSTM state
    ret,              \* value returned by the last get_speech_segment() call
    oracle,           \* environment: what the classifier answers for each window
    fed,              \* history: number of stream samples accepted so far
    trace,            \* history: one record per classified window
    finalized,        \* history: every segment appended to self._segments, in order
    returned,         \* history: every segment returned by get_speech_segment()
    flushes,          \* history: number of flush() calls so far
    last,             \* history: name and pre-state of the last operation
    audio_queue,      \* self.audio_queue: frames from the capture callback
    result_queue,     \* self.result_queue: messages from the worker
    tts_playing,      \* self.tts_playing: the suppression signal
    worker,           \* _asr_worker: position in its loop and the frame it holds
    speech_run,       \* the worker's segmenter: frames of the open speech run
    players,          \* the _play_and_clear threads started so far, in order
    capture,          \* number of frames the sound device delivered, and its bound
    hist,             \* history: frames given to the segmenter, segments it
                      \* finalised, frames dropped by the callback
    wlast,            \* history: the worker's last pass over a dequeued frame
    vad_queue,        \* the worker's segmenter: completed segments not yet taken
    main,             \* run(): its position, and whether _handle_results lives
    env,              \* environment: the assistant class, what the room and
                      \* the response stage may do
    hlast,            \* history: the last pass of _handle_results
    strategies,       \* RouterStrategy.strategies: the routing chain
    rlast             \* history: the last operation on the router, its result

segVars == << cfg, buffer, speech_buf, segments, in_speech, silence_samples, hc,
              ret, oracle, fed, trace, finalized, returned, flushes, last >>

pipeVars == << audio_queue, result_queue, tts_playing, worker, speech_run,
               players, capture, hist, wlast, vad_queue, main, env, hlast >>

routerVars == << strategies, rlast >>

vars == << segVars, pipeVars, routerVars >>

----------------------------------------------------------------------------
(* Program constants *)

WINDOW_SIZE == 512

SAMPLE_RATE == 16000

\* mp.Queue(maxsize=100)
AUDIO_QUEUE_MAXSIZE == 100

\* `while not vad.empty() and processed_count < 2`
DRAIN_LIMIT == 2

\* block_size = int(sample_rate * 0.03): a frame is 30 ms of audio
FRAME_MS == 30

\* DEFAULT_CONFIG["audio"]["chunk_duration"]: 0.1 s per read of the stream
CHUNK_MS == 100

(* Bounds of the model *)

MaxWindows == 5

MaxFlushes == 1

MaxRun == 10

MaxScriptWindows == 30

\* windows classified in a run whose classifier answers are fixed beforehand
MaxChunkWindows == 5

\* frames the sound device delivers in a run of the pipeline
MaxFrames == 4

\* playbacks started in a run of the pipeline
MaxPlaybacks == 2

\* frames the sound device delivers in a run of the capture callback alone,
\* and in a run with startup and shutdown
MaxCaptureFrames == 101

\* frames the sound device delivers in a run of the result-handling path
MaxHandleFrames == 3

\* reads of the input stream in a run of the threaded assistant
MaxThreadReads == 2

\* strategies ever added to a router
MaxStrategies == 3

\* frames the sound device delivers in a run with failing playbacks
MaxPlayFrames == 3

\* frames the sound device delivers in a run that is shut down during playback
MaxStopFrames == 3

\* get_speech_segment() returning None
NoneValue == "None"

(* Classifier outputs (percent) the free environment may answer. *)
Probs == {10, 50}

(* Classifier outputs of a scripted run: 0.9 for speech, 0.1 for silence. *)
ScriptProbs == [high |-> 90, low |-> 10]

(* Lengths of the chunks handed to accept_waveform: empty, half a window,
   one window, two windows and a half. *)
ChunkLens == {0, 256, 512, 1280}

----------------------------------------------------------------------------
(* numpy arrays, run-length encoded *)

RECURSIVE ArrLen(_)
ArrLen(a) == IF a = << >> THEN 0 ELSE Head(a).n + ArrLen(Tail(a))

Joinable(r1, r2) ==
    \/ r1.z /\ r2.z
    \/ ~r1.z /\ ~r2.z /\ r1.s + r1.n = r2.s

\* np.concatenate([a, b])
Concat(a, b) ==
    IF a = << >> THEN b
    ELSE IF b = << >> THEN a
    ELSE LET r1 == a[Len(a)]
             r2 == b[1]
         IN  IF Joinable(r1, r2)
             THEN SubSeq(a, 1, Len(a) - 1)
                  \o << [z |-> r1.z, s |-> r1.s, n |-> r1.n + r2.n] >>
                  \o Tail(b)
             ELSE a \o b

\* a[:k]
RECURSIVE Take(_, _)
Take(a, k) ==
    IF k <= 0 \/ a = << >> THEN << >>
    ELSE IF Head(a).n <= k
         THEN << Head(a) >> \o Take(Tail(a), k - Head(a).n)
         ELSE << [z |-> Head(a).z, s |-> Head(a).s, n |-> k] >>

\* a[k:]
RECURSIVE Drop(_, _)
Drop(a, k) ==
    IF a = << >> THEN << >>
    ELSE IF k <= 0 THEN a
    ELSE IF Head(a).n <= k
         THEN Drop(Tail(a), k - Head(a).n)
         ELSE << [z |-> Head(a).z,
                  s |-> IF Head(a).z THEN 0 ELSE Head(a).s + k,
                  n |-> Head(a).n - k] >> \o Tail(a)

\* np.zeros(k)
Zeros(k) == IF k > 0 THEN << [z |-> TRUE, s |-> 0, n |-> k] >> ELSE << >>

\* the next k samples of the input stream, starting at stream offset s
Stream(s, k) == IF k > 0 THEN << [z |-> FALSE, s |-> s, n |-> k] >> ELSE << >>

----------------------------------------------------------------------------
(* Configuration *)

\* int(duration * sample_rate), duration given in milliseconds
DurationSamples(ms, sr) == (ms * sr) \div 1000

MakeCfg(thr, sil_ms, sp_ms, buf_ms) ==
    [ threshold           |-> thr,
      min_silence_samples |-> DurationSamples(sil_ms, SAMPLE_RATE),
      min_speech_samples  |-> DurationSamples(sp_ms, SAMPLE_RATE),
      buffer_size_samples |-> DurationSamples(buf_ms, SAMPLE_RATE) ]

\* DEFAULT_CONFIG["vad"]
DefaultCfg == MakeCfg(40, 500, 250, 20000)

\* defaults of _SileroVADState.__init__
CtorDefaultCfg == MakeCfg(50, 300, 100, 30000)

\* the scenario configuration: threshold 0.5, 0.5 s silence, 0.25 s speech
ScenarioCfg == MakeCfg(50, 500, 250, 20000)

\* short durations, so that segments complete and the speech buffer passes
\* buffer_size_seconds within MaxWindows windows
SmallCfgs == { MakeCfg(50, 50, 100, 128), MakeCfg(40, 32, 32, 64) }

----------------------------------------------------------------------------
(* The segmenter object as a record, so that the helpers below can be
   composed the way the methods call each other. *)

Cur ==
    [ buffer          |-> buffer,
      speech_buf      |-> speech_buf,
      segments        |-> segments,
      in_speech       |-> in_speech,
      silence_samples |-> silence_samples,
      hc              |-> hc,
      trace           |-> trace,
      finalized       |-> finalized,
      flushes         |-> flushes,
      inflush         |-> FALSE ]

\* self._segments.append(self._speech_buf.copy()), with the history of it
AppendSegment(st) ==
    [st EXCEPT !.segments  = Append(@, st.speech_buf),
               !.finalized = Append(@, st.speech_buf)]

\* _infer: one model run; the LSTM state absorbs the window.  The
\* probability itself is the environment's answer, prob.
Infer(st, window, prob) == [st EXCEPT !.hc = @ + 1]

\* _update_state, speech frame: prob >= threshold
\* (faulty variant: the silence-run counter is not reset)
SpeechFrame_NoReset(st, window) ==
    [st EXCEPT !.speech_buf = Concat(st.speech_buf, window),
               !.in_speech  = TRUE]

SpeechFrame(st, window) ==
    [st EXCEPT !.silence_samples = 0,
               !.speech_buf      = Concat(st.speech_buf, window),
               !.in_speech       = TRUE]

\* _update_state, end of speech segment
\* (faulty variant: the speech buffer is not emptied when the segment ends)
EndSegment_KeepBuffer(st) ==
    LET s2 == IF ArrLen(st.speech_buf) >= cfg.min_speech_samples
              THEN AppendSegment(st)
              ELSE st
    IN  [s2 EXCEPT !.in_speech       = FALSE,
                   !.silence_samples = 0]

\* (faulty variant: the segment is emitted whatever its length)
EndSegment_NoMinCheck(st) ==
    [AppendSegment(st) EXCEPT !.speech_buf      = << >>,
                              !.in_speech       = FALSE,
                              !.silence_samples = 0]

EndSegment(st) ==
    LET s2 == IF ArrLen(st.speech_buf) >= cfg.min_speech_samples
              THEN AppendSegment(st)
              ELSE st
    IN  [s2 EXCEPT !.speech_buf      = << >>,
                   !.in_speech       = FALSE,
                   !.silence_samples = 0]

\* _update_state, silence frame while in speech
\* (faulty variant: the silence run must exceed min_silence_samples)
SilenceFrame_Strict(st, window) ==
    LET s1 == [st EXCEPT !.speech_buf      = Concat(st.speech_buf, window),
                         !.silence_samples = @ + WINDOW_SIZE]
    IN  IF s1.silence_samples > cfg.min_silence_samples THEN EndSegment(s1) ELSE s1

\* (faulty variant: the window completing the silence run is not appended)
SilenceFrame_EndBeforeAppend(st, window) ==
    LET s1 == [st EXCEPT !.silence_samples = @ + WINDOW_SIZE]
    IN  IF s1.silence_samples >= cfg.min_silence_samples
        THEN EndSegment(s1)
        ELSE [s1 EXCEPT !.speech_buf = Concat(st.speech_buf, window)]

\* (faulty variant: silence inside an utterance is not retained)
SilenceFrame_DropWindow(st, window) ==
    LET s1 == [st EXCEPT !.silence_samples = @ + WINDOW_SIZE]
    IN  IF s1.silence_samples >= cfg.min_silence_samples THEN EndSegment(s1) ELSE s1

SilenceFrame(st, window) ==
    LET s1 == [st EXCEPT !.speech_buf      = Concat(st.speech_buf, window),
                         !.silence_samples = @ + WINDOW_SIZE]
    IN  IF s1.silence_samples >= cfg.min_silence_samples THEN EndSegment(s1) ELSE s1

\* _update_state
\* (faulty variant: a silence frame is handled as if a speech run were open)
UpdateState_NoSpeechGuard(st, window, prob) ==
    IF prob >= cfg.threshold
    THEN SpeechFrame(st, window)
    ELSE SilenceFrame(st, window)

UpdateState(st, window, prob) ==
    IF prob >= cfg.threshold
    THEN SpeechFrame(st, window)
    ELSE IF st.in_speech
         THEN SilenceFrame(st, window)
         ELSE st

\* history of one classified window: the window, its probability, the
\* state before and after, the length in samples of the unbroken run of
\* below-threshold windows it ends, whether it finalized a segment, how
\* many segments had been finalized after it, how many flush() calls had
\* returned before it and whether it was classified inside flush()
Record(before, after, window, prob) ==
    LET prev == IF before.trace = << >> THEN 0
                ELSE before.trace[Len(before.trace)].lowrun
    IN  [after EXCEPT !.trace = Append(@,
            [ w       |-> window,
              p       |-> prob,
              pre     |-> before.in_speech,
              post    |-> after.in_speech,
              sil     |-> after.silence_samples,
              lowrun  |-> IF prob >= cfg.threshold THEN 0 ELSE prev + WINDOW_SIZE,
              buflen  |-> ArrLen(after.speech_buf),
              emitted |-> Len(after.finalized) > Len(before.finalized),
              nfin    |-> Len(after.finalized),
              fl      |-> before.flushes,
              infl    |-> before.inflush ])]

\* _process_buffer; ps are the classifier's answers for the windows to come
\* (faulty variant: what is left of the buffer when the loop ends is dropped)
RECURSIVE ProcessBuffer_DropLeftover(_, _)
ProcessBuffer_DropLeftover(st, ps) ==
    IF ArrLen(st.buffer) >= WINDOW_SIZE /\ ps # << >>
    THEN LET window == Take(st.buffer, WINDOW_SIZE)
             s1     == [st EXCEPT !.buffer = Drop(st.buffer, WINDOW_SIZE)]
             s2     == Infer(s1, window, Head(ps))
             s3     == UpdateState(s2, window, Head(ps))
         IN  ProcessBuffer_DropLeftover(Record(st, s3, window, Head(ps)), Tail(ps))
    ELSE [st EXCEPT !.buffer = << >>]

\* (faulty variant: the loop runs while len(buffer) > WINDOW_SIZE)
RECURSIVE ProcessBuffer_Strict(_, _)
ProcessBuffer_Strict(st, ps) ==
    IF ArrLen(st.buffer) > WINDOW_SIZE /\ ps # << >>
    THEN LET window == Take(st.buffer, WINDOW_SIZE)
             s1     == [st EXCEPT !.buffer = Drop(st.buffer, WINDOW_SIZE)]
             s2     == Infer(s1, window, Head(ps))
             s3     == UpdateState(s2, window, Head(ps))
         IN  ProcessBuffer_Strict(Record(st, s3, window, Head(ps)), Tail(ps))
    ELSE st

RECURSIVE ProcessBuffer(_, _)
ProcessBuffer(st, ps) ==
    IF ArrLen(st.buffer) >= WINDOW_SIZE /\ ps # << >>
    THEN LET window == Take(st.buffer, WINDOW_SIZE)
             s1     == [st EXCEPT !.buffer = Drop(st.buffer, WINDOW_SIZE)]
             s2     == Infer(s1, window, Head(ps))
             s3     == UpdateState(s2, window, Head(ps))
         IN  ProcessBuffer(Record(st, s3, window, Head(ps)), Tail(ps))
    ELSE st

\* The part of flush() after the padded buffer has been processed
\* (faulty variant: the open speech buffer is dropped)
FlushFinalise_Discard(st) ==
    [st EXCEPT !.speech_buf = << >>, !.in_speech = FALSE]

\* (faulty variant: the open speech buffer is emitted whatever its length)
FlushFinalise_NoMinCheck(st) ==
    LET s1 == IF st.in_speech THEN AppendSegment(st) ELSE st
    IN  [s1 EXCEPT !.speech_buf = << >>, !.in_speech = FALSE]

FlushFinalise(st) ==
    LET s1 == IF st.in_speech /\ ArrLen(st.speech_buf) >= cfg.min_speech_samples
              THEN AppendSegment(st)
              ELSE st
    IN  [s1 EXCEPT !.speech_buf = << >>, !.in_speech = FALSE]

\* The accumulation buffer as flush() pads it before processing it
\* (faulty variant: a whole window of zeros is appended to an aligned buffer)
FlushBuffer_AlwaysPad(buf) ==
    Concat(buf, Zeros(WINDOW_SIZE - (ArrLen(buf) % WINDOW_SIZE)))

FlushBuffer(buf) ==
    LET remainder == ArrLen(buf)
        pad       == WINDOW_SIZE - (remainder % WINDOW_SIZE)
    IN  IF remainder > 0 /\ pad # WINDOW_SIZE THEN Concat(buf, Zeros(pad)) ELSE buf

\* is_speech_detected()
is_speech_detected == in_speech

\* empty()
empty == Len(segments) = 0

\* front_samples()
front_samples(segs) == IF segs # << >> THEN segs[1] ELSE NoneValue

\* pop()
\* (faulty variant: deque.clear() in place of deque.popleft())
pop_Clear(segs) == << >>

\* (faulty variant: deque.pop() in place of deque.popleft())
pop_Right(segs) == IF segs # << >> THEN SubSeq(segs, 1, Len(segs) - 1) ELSE segs

pop(segs) == IF segs # << >> THEN Tail(segs) ELSE segs

----------------------------------------------------------------------------
(* The environment *)

\* what the classifier may answer for the i-th window it is given (i from 0)
Outcomes(i) ==
    IF oracle.free THEN Probs
    ELSE IF oracle.fixed THEN {oracle.ans[i + 1]}
    ELSE IF i < oracle.n THEN {ScriptProbs.high} ELSE {ScriptProbs.low}

\* the answers for k windows, the first being window number i
OracleSeqs(i, k) ==
    { ps \in [1..k -> Probs \cup {ScriptProbs.high, ScriptProbs.low}] :
        \A j \in 1..k : ps[j] \in Outcomes(i + j - 1) }

Cap ==
    IF oracle.free THEN MaxWindows
    ELSE IF oracle.fixed THEN Len(oracle.ans)
    ELSE MaxScriptWindows

Commit(st) ==
    /\ buffer' = st.buffer
    /\ speech_buf' = st.speech_buf
    /\ segments' = st.segments
    /\ in_speech' = st.in_speech
    /\ silence_samples' = st.silence_samples
    /\ hc' = st.hc
    /\ trace' = st.trace
    /\ finalized' = st.finalized

\* RouterStrategy(config): self.strategies = []
RouterIdle ==
    /\ strategies = << >>
    /\ rlast = [op |-> "init", added |-> 0]

\* the worker at position pc of its loop, holding no frame
WorkerAt(pc, exit) ==
    [pc |-> pc, indata |-> NoneValue, supget |-> FALSE, runget |-> FALSE,
     exit |-> exit]

\* the pipeline objects once run() has started the worker process, the result
\* thread and the input stream; cap bounds the frames delivered, e is the
\* environment, wpc the position of the worker
PipeStart(cap, e, wpc) ==
    /\ audio_queue = << >>
    /\ result_queue = << >>
    /\ tts_playing = FALSE
    /\ worker = WorkerAt(wpc, "none")
    /\ speech_run = << >>
    /\ vad_queue = << >>
    /\ players = << >>
    /\ capture = [n |-> 0, cap |-> cap]
    /\ hist = [fed |-> << >>, emitted |-> << >>, dropped |-> << >>,
               texts |-> << >>, pushed |-> << >>]
    /\ wlast = [op |-> "none"]
    /\ main = [pc |-> "running", handler |-> "alive"]
    /\ env = e
    /\ hlast = [op |-> "none", nfail |-> 0]
    /\ RouterIdle

\* VoiceAssistantFast in a room with speech, the response stage either
\* answering with a response that is synthesized or not answering
PlainEnv == [variant |-> "fast", quiet |-> FALSE, detail |-> FALSE]

\* the pipeline with the worker past its initialisation, waiting for frames
PipeIdle(cap) == PipeStart(cap, PlainEnv, "get")

----------------------------------------------------------------------------
(* Operations *)

Init ==
    /\ cfg \in SmallCfgs
    /\ oracle = [free |-> TRUE, fixed |-> FALSE, n |-> 0, ans |-> << >>]
    /\ buffer = << >>
    /\ speech_buf = << >>
    /\ segments = << >>
    /\ in_speech = FALSE
    /\ silence_samples = 0
    /\ hc = 0
    /\ ret = NoneValue
    /\ fed = 0
    /\ trace = << >>
    /\ finalized = << >>
    /\ returned = << >>
    /\ flushes = 0
    /\ last = [op |-> "init"]
    /\ PipeIdle(0)

accept_waveform(n) ==
    LET st0 == [Cur EXCEPT !.buffer = Concat(buffer, Stream(fed, n))]
        k   == ArrLen(st0.buffer) \div WINDOW_SIZE
    IN  /\ Len(trace) + k <= Cap
        /\ \E ps \in OracleSeqs(Len(trace), k) : Commit(ProcessBuffer(st0, ps))
        /\ fed' = fed + n
        /\ last' = [op |-> "accept", pre |-> Cur, n |-> n]
        /\ UNCHANGED << cfg, oracle, ret, returned, flushes >>
        /\ UNCHANGED << pipeVars, routerVars >>

AcceptWaveform == \E n \in ChunkLens : accept_waveform(n)

Flush ==
    LET st0 == [Cur EXCEPT !.buffer = FlushBuffer(buffer), !.inflush = TRUE]
        k   == ArrLen(st0.buffer) \div WINDOW_SIZE
    IN  /\ flushes < MaxFlushes
        /\ Len(trace) + k <= Cap
        /\ flushes' = flushes + 1
        /\ \E ps \in OracleSeqs(Len(trace), k) :
              Commit(FlushFinalise(ProcessBuffer(st0, ps)))
        /\ last' = [op |-> "flush", pre |-> Cur]
        /\ UNCHANGED << cfg, oracle, ret, returned, fed >>
        /\ UNCHANGED << pipeVars, routerVars >>

GetSpeechSegment ==
    LET samples == front_samples(segments)
    IN  /\ segments' = IF samples # NoneValue THEN pop(segments) ELSE segments
        /\ ret' = samples
        /\ returned' = IF samples # NoneValue THEN Append(returned, samples) ELSE returned
        /\ last' = [op |-> "get", pre |-> Cur]
        /\ UNCHANGED << cfg, oracle, buffer, speech_buf, in_speech, silence_samples,
                        hc, fed, trace, finalized, flushes >>
        /\ UNCHANGED << pipeVars, routerVars >>

Next == AcceptWaveform \/ Flush \/ GetSpeechSegment

Spec == Init /\ [][Next]_vars

(* A scripted run: oracle.n windows answered 0.9, then windows answered 0.1,
   under the default, constructor-default, scenario and short configurations;
   flush() is not part of the run. *)

RunCfgs == {DefaultCfg, CtorDefaultCfg, ScenarioCfg} \cup SmallCfgs

InitRun ==
    /\ cfg \in RunCfgs
    /\ oracle \in [free : {FALSE}, fixed : {FALSE}, n : 1..MaxRun, ans : {<< >>}]
    /\ buffer = << >>
    /\ speech_buf = << >>
    /\ segments = << >>
    /\ in_speech = FALSE
    /\ silence_samples = 0
    /\ hc = 0
    /\ ret = NoneValue
    /\ fed = 0
    /\ trace = << >>
    /\ finalized = << >>
    /\ returned = << >>
    /\ flushes = 0
    /\ last = [op |-> "init"]
    /\ PipeIdle(0)

NextRun == AcceptWaveform \/ GetSpeechSegment

SpecRun == InitRun /\ [][NextRun]_vars

(* A run over one sample sequence: the classifier is a function of the
   window and of the recurrent state left by the windows before it, so its
   answer for the i-th window of the sequence is fixed, whatever the calls
   that deliver the samples.  Every sequence of answers is considered;
   flush() is not part of the run. *)

\* a segmenter as constructed
Fresh ==
    [ buffer          |-> << >>,
      speech_buf      |-> << >>,
      segments        |-> << >>,
      in_speech       |-> FALSE,
      silence_samples |-> 0,
      hc              |-> 0,
      trace           |-> << >>,
      finalized       |-> << >>,
      flushes         |-> 0,
      inflush         |-> FALSE ]

InitChunk ==
    /\ cfg \in SmallCfgs
    /\ oracle \in [free : {FALSE}, fixed : {TRUE}, n : {0},
                   ans : [1..MaxChunkWindows -> Probs]]
    /\ buffer = Fresh.buffer
    /\ speech_buf = Fresh.speech_buf
    /\ segments = Fresh.segments
    /\ in_speech = Fresh.in_speech
    /\ silence_samples = Fresh.silence_samples
    /\ hc = Fresh.hc
    /\ ret = NoneValue
    /\ fed = 0
    /\ trace = Fresh.trace
    /\ finalized = Fresh.finalized
    /\ returned = << >>
    /\ flushes = Fresh.flushes
    /\ last = [op |-> "init"]
    /\ PipeIdle(0)

NextChunk == AcceptWaveform \/ GetSpeechSegment

SpecChunk == InitChunk /\ [][NextChunk]_vars

----------------------------------------------------------------------------
(* The pipeline of VoiceAssistantFast / VoiceAssistantFaster.

   A frame is a record [id, sup, era]: id numbers the frames in capture
   order, sup is the value of tts_playing when the frame was captured, era
   the number of playbacks started before it was captured.  The worker's
   segmenter is the sherpa-onnx detector behind vad.VoiceActivityDetector;
   its answer for a frame is the environment's choice.  A segment is the
   sequence of frames of its speech run. *)

\* the value None that run() puts on the frame channel to stop the worker
Sentinel == [id |-> 0, sup |-> FALSE, era |-> 0]

\* samples of a frame at the segmenter's rate
FrameSamples == DurationSamples(FRAME_MS, SAMPLE_RATE)

\* windows a frame can complete: the leftover of the segmenter is shorter
\* than a window
WindowsPerFrame == (WINDOW_SIZE - 1 + FrameSamples) \div WINDOW_SIZE

\* a classified window completes at most one segment
SegmentsPerFrame == WindowsPerFrame

\* what the segmenter and the recognizer may do with one frame:
\*   fail      - accept_waveform raises (the classifier call failed)
\*   skip      - no speech, no open run: nothing is kept
\*   speech    - the frame joins the open speech run
\*   end_text  - the frame closes the run; the segment is recognized as text
\*   end_empty - the frame closes the run; the recognized text is empty
\*   end_fail  - the frame closes the run; the recognizer raises
\* In a quiet room no frame holds speech.
FrameOutcomes ==
    IF env.quiet THEN {"fail", "skip"}
    ELSE {"fail", "speech", "end_text", "end_empty", "end_fail"}
             \cup (IF speech_run = << >> THEN {"skip"} ELSE {})

Ends == {"end_text", "end_empty", "end_fail"}

\* what the recognizer does with the segments of a frame of outcome o
RecOf(o) ==
    IF o = "end_text" THEN "text" ELSE IF o = "end_fail" THEN "fail" ELSE "empty"

\* _audio_callback
AudioCallback ==
    LET f == [id |-> capture.n + 1, sup |-> tts_playing, era |-> Len(players)]
    IN  /\ main.pc = "running"
        /\ capture.n < capture.cap
        /\ capture' = [capture EXCEPT !.n = @ + 1]
        /\ IF Len(audio_queue) < AUDIO_QUEUE_MAXSIZE
           THEN /\ audio_queue' = Append(audio_queue, f)
                /\ hist' = hist
           ELSE /\ audio_queue' = audio_queue
                /\ hist' = [hist EXCEPT !.dropped = Append(@, f)]
        /\ UNCHANGED << result_queue, tts_playing, worker, speech_run, players,
                        wlast, vad_queue, main, env, hlast >>
        /\ UNCHANGED << segVars, routerVars >>

\* _asr_worker: indata = audio_queue.get(timeout=1.0);
\* `if indata is None: break`
\* (faulty variant: the suppression signal is tested before the sentinel)
WorkerGet_SuppressionFirst ==
    /\ worker.pc = "get"
    /\ audio_queue # << >>
    /\ worker' = IF Head(audio_queue) = Sentinel
                 THEN IF tts_playing THEN WorkerAt("get", "none")
                      ELSE WorkerAt("stopped", "sentinel")
                 ELSE [pc |-> "have", indata |-> Head(audio_queue),
                       supget |-> tts_playing,
                       runget |-> (main.pc = "running"), exit |-> "none"]
    /\ audio_queue' = Tail(audio_queue)
    /\ UNCHANGED << result_queue, tts_playing, speech_run, players, capture,
                    hist, wlast, vad_queue, main, env, hlast >>
    /\ UNCHANGED << segVars, routerVars >>

WorkerGet ==
    /\ worker.pc = "get"
    /\ audio_queue # << >>
    /\ worker' = IF Head(audio_queue) = Sentinel
                 THEN WorkerAt("stopped", "sentinel")
                 ELSE [pc |-> "have", indata |-> Head(audio_queue),
                       supget |-> tts_playing,
                       runget |-> (main.pc = "running"), exit |-> "none"]
    /\ audio_queue' = Tail(audio_queue)
    /\ UNCHANGED << result_queue, tts_playing, speech_run, players, capture,
                    hist, wlast, vad_queue, main, env, hlast >>
    /\ UNCHANGED << segVars, routerVars >>

\* what the worker's pass can see of the segmenter and the result channel
Snapshot(h, run, results, queue) ==
    [ fed |-> h.fed, emitted |-> h.emitted, run |-> run, results |-> results,
      queue |-> queue ]

\* the loop `while not vad.empty() and processed_count < 2`: take the oldest
\* segment, recognize it, push its text if it is not empty; rec is what the
\* recognizer does, acc the result channel and the history so far
\* (faulty variant: the loop body is never entered)
Drain_NoLoop(q, count, rec, acc) == [acc EXCEPT !.queue = q]

\* (faulty variant: the text is pushed without the `if text:` test)
RECURSIVE Drain_PushEmpty(_, _, _, _)
Drain_PushEmpty(q, count, rec, acc) ==
    IF q = << >> \/ count >= DRAIN_LIMIT THEN [acc EXCEPT !.queue = q]
    ELSE LET seg  == Head(q)
             acc1 == [acc EXCEPT !.texts = Append(@, [seg |-> seg, text |-> rec])]
         IN  IF rec = "fail"
             THEN [acc1 EXCEPT !.queue = Tail(q), !.failed = TRUE]
             ELSE Drain_PushEmpty(Tail(q), count + 1, rec,
                        [acc1 EXCEPT
                           !.results = Append(@, [type |-> "transcription",
                                                  seg |-> seg]),
                           !.pushed = Append(@, seg)])

RECURSIVE Drain(_, _, _, _)
Drain(q, count, rec, acc) ==
    IF q = << >> \/ count >= DRAIN_LIMIT THEN [acc EXCEPT !.queue = q]
    ELSE LET seg  == Head(q)
             acc1 == [acc EXCEPT !.texts = Append(@, [seg |-> seg, text |-> rec])]
         IN  IF rec = "fail"
             THEN [acc1 EXCEPT !.queue = Tail(q), !.failed = TRUE]
             ELSE IF rec = "text"
             THEN Drain(Tail(q), count + 1, rec,
                        [acc1 EXCEPT
                           !.results = Append(@, [type |-> "transcription",
                                                  seg |-> seg]),
                           !.pushed = Append(@, seg)])
             ELSE Drain(Tail(q), count + 1, rec, acc1)

\* the rest of the loop body for the frame f when tts_playing is clear:
\* resample, vad.accept_waveform, then take and recognize completed
\* segments; the frame completes n segments if its outcome is an end
ProcessFrame(f, o, n) ==
    LET first == Append(speech_run, f)
        segs  == IF o \in Ends
                 THEN << first >> \o [i \in 1..(n - 1) |-> << f >>]
                 ELSE << >>
        h1    == [hist EXCEPT !.fed = Append(@, f),
                              !.emitted = @ \o segs]
        run2  == IF o = "speech" THEN first
                 ELSE IF o \in Ends THEN << >>
                 ELSE speech_run
        d     == IF o = "fail"
                 THEN [results |-> result_queue, texts |-> hist.texts,
                       pushed |-> hist.pushed, failed |-> TRUE,
                       queue |-> vad_queue]
                 ELSE Drain(vad_queue \o segs, 0, RecOf(o),
                            [results |-> result_queue, texts |-> hist.texts,
                             pushed |-> hist.pushed, failed |-> FALSE,
                             queue |-> << >>])
        h2    == [h1 EXCEPT !.texts = d.texts, !.pushed = d.pushed]
        res2  == IF d.failed
                 THEN Append(d.results, [type |-> "error", seg |-> << >>])
                 ELSE d.results
    IN  /\ hist' = h2
        /\ speech_run' = run2
        /\ vad_queue' = d.queue
        /\ result_queue' = res2
        /\ worker' = IF d.failed THEN WorkerAt("stopped", "error")
                     ELSE WorkerAt("get", "none")
        /\ wlast' = [op |-> "process", f |-> f, supget |-> worker.supget,
                     runget |-> worker.runget,
                     supchk |-> tts_playing, outcome |-> o,
                     pre |-> Snapshot(hist, speech_run, result_queue, vad_queue),
                     post |-> Snapshot(h2, run2, res2, d.queue)]

\* `if tts_playing.is_set(): continue`
DiscardFrame(f) ==
    /\ worker' = WorkerAt("get", "none")
    /\ wlast' = [op |-> "process", f |-> f, supget |-> worker.supget,
                 runget |-> worker.runget,
                 supchk |-> TRUE, outcome |-> "discard",
                 pre |-> Snapshot(hist, speech_run, result_queue, vad_queue),
                 post |-> Snapshot(hist, speech_run, result_queue, vad_queue)]
    /\ UNCHANGED << hist, speech_run, result_queue, vad_queue >>

\* _asr_worker: the loop body after the frame has been dequeued
\* (faulty variant: the suppression signal is not tested)
WorkerProcess_NoCheck ==
    /\ worker.pc = "have"
    /\ \E o \in FrameOutcomes : \E n \in 1..SegmentsPerFrame :
          ProcessFrame(worker.indata, o, n)
    /\ UNCHANGED << audio_queue, tts_playing, players, capture, main, env,
                    hlast >>
    /\ UNCHANGED << segVars, routerVars >>

WorkerProcess ==
    /\ worker.pc = "have"
    /\ IF tts_playing
       THEN DiscardFrame(worker.indata)
       ELSE \E o \in FrameOutcomes : \E n \in 1..SegmentsPerFrame :
               ProcessFrame(worker.indata, o, n)
    /\ UNCHANGED << audio_queue, tts_playing, players, capture, main, env,
                    hlast >>
    /\ UNCHANGED << segVars, routerVars >>

\* Python values handed between the stages
Str(v) == [t |-> "str", v |-> v]

Bool(b) == [t |-> "bool", v |-> IF b THEN "True" ELSE "False"]

\* what response_strategy.generate_response may do: return a pair
\* (matched, response) or raise
GenOutcomes ==
    IF env.detail
    THEN [kind : {"ret"}, matched : BOOLEAN, response : {"", "resp"}]
             \cup {[kind |-> "raise", matched |-> FALSE, response |-> ""]}
    ELSE {[kind |-> "ret", matched |-> TRUE, response |-> "resp"],
          [kind |-> "ret", matched |-> FALSE, response |-> ""]}

\* what tts.synthesize may do: return audio, return None, or raise
SynOutcomes == IF env.detail THEN {"audio", "none", "raise"} ELSE {"audio"}

\* _handle_command up to the synthesizer call, for the pair g returned by
\* the response generator: whether the synthesizer is called, and with what.
\* VoiceAssistantFast:   matched, response = ...; if response: synthesize(response)
\* VoiceAssistantFaster: response, _ = ...;       if _: synthesize(response)
SynthCall(g) ==
    IF env.variant = "fast"
    THEN [called |-> g.response # "", arg |-> Str(g.response)]
    ELSE [called |-> g.response # "", arg |-> Bool(g.matched)]

\* one pass of the loop of _handle_results for the message msg, the response
\* generator doing g and the synthesizer s; dies says what an exception does
\* to the loop
HandlePass(msg, g, s, dies) ==
    LET cmd     == msg.type = "transcription"
        call    == SynthCall(g)
        called  == cmd /\ g.kind = "ret" /\ call.called
        raised  == cmd /\ (g.kind = "raise" \/ (called /\ s = "raise"))
        started == called /\ s = "audio"
    IN  /\ started => Len(players) < MaxPlaybacks
        /\ tts_playing' = (tts_playing \/ started)
        /\ players' = IF started THEN Append(players, "playing") ELSE players
        /\ main' = IF raised /\ dies THEN [main EXCEPT !.handler = "dead"]
                   ELSE main
        /\ hlast' = [op |-> "handle", type |-> msg.type, gen |-> g,
                     called |-> called, arg |-> call.arg, syn |-> s,
                     started |-> started, raised |-> raised,
                     tts_pre |-> tts_playing,
                     tts_post |-> (tts_playing \/ started),
                     nfail |-> hlast.nfail + (IF raised THEN 1 ELSE 0)]

\* _handle_results with _handle_command: one message of the result channel.
\* The running flag is tested at the top of every pass.
\* (faulty variant: an exception of _handle_command leaves the loop)
HandleResults_NoCatch ==
    /\ main.pc = "running"
    /\ main.handler = "alive"
    /\ result_queue # << >>
    /\ result_queue' = Tail(result_queue)
    /\ \E g \in GenOutcomes : \E s \in SynOutcomes :
          HandlePass(Head(result_queue), g, s, TRUE)
    /\ UNCHANGED << audio_queue, worker, speech_run, capture, hist, wlast,
                    vad_queue, env >>
    /\ UNCHANGED << segVars, routerVars >>

HandleResults ==
    /\ main.pc = "running"
    /\ main.handler = "alive"
    /\ result_queue # << >>
    /\ result_queue' = Tail(result_queue)
    /\ \E g \in GenOutcomes : \E s \in SynOutcomes :
          HandlePass(Head(result_queue), g, s, FALSE)
    /\ UNCHANGED << audio_queue, worker, speech_run, capture, hist, wlast,
                    vad_queue, env >>
    /\ UNCHANGED << segVars, routerVars >>

\* _play_and_clear: sd.play(...); sd.wait() has returned
PlaybackFinished(i) ==
    /\ players[i] = "playing"
    /\ players' = [players EXCEPT ![i] = "guard"]
    /\ UNCHANGED << audio_queue, result_queue, tts_playing, worker, speech_run,
                    capture, hist, wlast, vad_queue, main, env, hlast >>
    /\ UNCHANGED << segVars, routerVars >>

\* _play_and_clear: time.sleep(0.2); self.tts_playing.clear()
ClearSuppression(i) ==
    /\ players[i] = "guard"
    /\ players' = [players EXCEPT ![i] = "done"]
    /\ tts_playing' = FALSE
    /\ UNCHANGED << audio_queue, result_queue, worker, speech_run, capture,
                    hist, wlast, vad_queue, main, env, hlast >>
    /\ UNCHANGED << segVars, routerVars >>

PlayAndClear ==
    \E i \in DOMAIN players : PlaybackFinished(i) \/ ClearSuppression(i)

\* the segmenter of vad_fast is not part of the pipeline runs
SegIdle ==
    /\ cfg = DefaultCfg
    /\ oracle = [free |-> TRUE, fixed |-> FALSE, n |-> 0, ans |-> << >>]
    /\ buffer = << >>
    /\ speech_buf = << >>
    /\ segments = << >>
    /\ in_speech = FALSE
    /\ silence_samples = 0
    /\ hc = 0
    /\ ret = NoneValue
    /\ fed = 0
    /\ trace = << >>
    /\ finalized = << >>
    /\ returned = << >>
    /\ flushes = 0
    /\ last = [op |-> "init"]

InitPipe == SegIdle /\ PipeIdle(MaxFrames)

NextPipe ==
    AudioCallback \/ WorkerGet \/ WorkerProcess \/ HandleResults \/ PlayAndClear

SpecPipe == InitPipe /\ [][NextPipe]_vars

(* The capture callback alone: the worker does not consume. *)

InitCapture == SegIdle /\ PipeIdle(MaxCaptureFrames)

NextCapture == AudioCallback

SpecCapture == InitCapture /\ [][NextCapture]_vars

(* The pipeline with a sound device that may fail during playback.  The
   _play_and_clear thread is scheduled like any thread: while it can take a
   step it eventually takes one. *)

\* _play_and_clear: sd.play(...) or sd.wait() raises; the exception ends the
\* thread
PlaybackRaises(i) ==
    /\ players[i] = "playing"
    /\ players' = [players EXCEPT ![i] = "failed"]
    /\ UNCHANGED << audio_queue, result_queue, tts_playing, worker, speech_run,
                    capture, hist, wlast, vad_queue, main, env, hlast >>
    /\ UNCHANGED << segVars, routerVars >>

PlaybackFails == \E i \in DOMAIN players : PlaybackRaises(i)

InitPlay == SegIdle /\ PipeIdle(MaxPlayFrames)

NextPlay ==
    \/ AudioCallback \/ WorkerGet \/ WorkerProcess \/ HandleResults
    \/ PlayAndClear \/ PlaybackFails

SpecPlay == InitPlay /\ [][NextPlay]_vars /\ WF_vars(PlayAndClear \/ PlaybackFails)

\* the same run with a sound device that does not fail
SpecPlaySound == InitPlay /\ [][NextPipe]_vars /\ WF_vars(PlayAndClear)

(* The result-handling path in detail: both assistant classes, every pair the
   response generator may return, both stages failing or not. *)

HandleEnvs == [variant : {"fast", "faster"}, quiet : {FALSE}, detail : {TRUE}]

InitHandle ==
    /\ SegIdle
    /\ \E e \in HandleEnvs : PipeStart(MaxHandleFrames, e, "get")

NextHandle ==
    AudioCallback \/ WorkerGet \/ WorkerProcess \/ HandleResults \/ PlayAndClear

SpecHandle == InitHandle /\ [][NextHandle]_vars

(* The life of a run: the worker initialises, frames are captured in a quiet
   room, then run() is interrupted and shuts the pipeline down. *)

\* _asr_worker before its loop: the recognizer and the segmenter are
\* constructed.  VoiceAssistantFaster reports a recognizer failure on the
\* result channel and returns; every other failure is an uncaught exception
\* that ends the worker process.
WorkerInit ==
    /\ worker.pc = "init"
    /\ \E o \in {"ok", "recognizer", "classifier"} :
          /\ worker' = IF o = "ok" THEN WorkerAt("get", "none")
                       ELSE WorkerAt("stopped", "init")
          /\ result_queue' =
                IF o = "recognizer" /\ env.variant = "faster"
                THEN Append(result_queue, [type |-> "error", seg |-> << >>])
                ELSE result_queue
    /\ UNCHANGED << audio_queue, tts_playing, speech_run, players, capture,
                    hist, wlast, vad_queue, main, env, hlast >>
    /\ UNCHANGED << segVars, routerVars >>

\* run(): KeyboardInterrupt leaves the input stream (no more callbacks);
\* finally: self.is_running = False
Interrupt ==
    /\ main.pc = "running"
    /\ main' = [main EXCEPT !.pc = "put"]
    /\ UNCHANGED << audio_queue, result_queue, tts_playing, worker, speech_run,
                    players, capture, hist, wlast, vad_queue, env, hlast >>
    /\ UNCHANGED << segVars, routerVars >>

\* run(): self.audio_queue.put(None), a put that waits for a free slot
PutSentinel ==
    /\ main.pc = "put"
    /\ Len(audio_queue) < AUDIO_QUEUE_MAXSIZE
    /\ audio_queue' = Append(audio_queue, Sentinel)
    /\ main' = [main EXCEPT !.pc = "join"]
    /\ UNCHANGED << result_queue, tts_playing, worker, speech_run, players,
                    capture, hist, wlast, vad_queue, env, hlast >>
    /\ UNCHANGED << segVars, routerVars >>

\* run(): asr_process.join(timeout=2); terminate() if it is still alive;
\* result_thread.join(timeout=2).  worker.exit keeps the position at which
\* the worker was terminated.
JoinWorker ==
    /\ main.pc = "join"
    /\ worker' = IF worker.pc = "stopped" THEN worker
                 ELSE [worker EXCEPT !.pc = "terminated", !.exit = worker.pc]
    /\ main' = [main EXCEPT !.pc = "returned"]
    /\ UNCHANGED << audio_queue, result_queue, tts_playing, speech_run, players,
                    capture, hist, wlast, vad_queue, env, hlast >>
    /\ UNCHANGED << segVars, routerVars >>

LifeEnvs == [variant : {"fast", "faster"}, quiet : {TRUE}, detail : {FALSE}]

InitLife ==
    /\ SegIdle
    /\ \E e \in LifeEnvs : PipeStart(MaxCaptureFrames, e, "init")

NextLife ==
    \/ WorkerInit \/ AudioCallback \/ WorkerGet \/ WorkerProcess
    \/ HandleResults \/ Interrupt \/ PutSentinel \/ JoinWorker

SpecLife == InitLife /\ [][NextLife]_vars

(* Shutdown of a pipeline that is answering: the room has speech, playbacks
   are started, and run() is interrupted at any moment. *)

InitStop == SegIdle /\ PipeIdle(MaxStopFrames)

NextStop ==
    \/ AudioCallback \/ WorkerGet \/ WorkerProcess \/ HandleResults
    \/ PlayAndClear \/ Interrupt \/ PutSentinel \/ JoinWorker

SpecStop == InitStop /\ [][NextStop]_vars

----------------------------------------------------------------------------
(* VoiceAssistant (voice_assistant.py): run() reads the input stream in the
   main thread and hands the samples to the process_audio thread through
   audio_queue; both threads hold the same segmenter object, self.vad.  A
   call of a segmenter method is an interval: it begins, and later it
   returns; `call` names the method a thread is inside.  The segmenter is
   the one of the pipeline runs: speech_run is its open speech run (window
   numbers), vad_queue its completed segments, and what a window does to it
   is the environment's choice.  result_queue stands for self.tts_queue. *)

\* samples_per_read = int(chunk_duration * sample_rate)
ReadSamples == DurationSamples(CHUNK_MS, SAMPLE_RATE)

ThreadEnv == [variant |-> "threaded", quiet |-> FALSE, detail |-> FALSE]

\* run(): position, is_running, printed_speech, the segmenter call it is in
RunAt(pc, running, printed, call) ==
    [pc |-> pc, running |-> running, printed |-> printed, call |-> call]

\* process_audio: position, len(buffer), the segmenter call it is in
AudioThreadAt(pc, buf, call) == [pc |-> pc, buf |-> buf, call |-> call]

\* what accept_waveform does with one window: nothing, the window joins
\* the speech run, or it ends the run and a segment is completed
WindowOutcomes == {"skip", "speech", "end"}

\* the value is_speech_detected() returns; read while the other thread is
\* inside accept_waveform or flush() it is either value
DetectResults(other) ==
    IF other \in {"accept_waveform", "flush"} THEN BOOLEAN
    ELSE {speech_run # << >>}

\* run(): samples, _ = stream.read(samples_per_read);
\* self.audio_queue.put(samples.copy())
RunRead ==
    /\ main.pc = "read"
    /\ main.running
    /\ capture.n < capture.cap
    /\ capture' = [capture EXCEPT !.n = @ + 1]
    /\ audio_queue' = Append(audio_queue, ReadSamples)
    /\ main' = [main EXCEPT !.pc = "if"]
    /\ UNCHANGED << result_queue, tts_playing, worker, speech_run, players,
                    hist, wlast, vad_queue, env, hlast >>
    /\ UNCHANGED << segVars, routerVars >>

\* run(): self.vad.is_speech_detected() is entered, in the `if` or the `elif`
RunDetectBegin ==
    /\ main.pc \in {"if", "elif"}
    /\ main.call = "none"
    /\ main' = [main EXCEPT !.call = "is_speech_detected"]
    /\ UNCHANGED << audio_queue, result_queue, tts_playing, worker, speech_run,
                    players, capture, hist, wlast, vad_queue, env, hlast >>
    /\ UNCHANGED << segVars, routerVars >>

\* run(): is_speech_detected() returns;
\* `if detected and not printed_speech` / `elif not detected and printed_speech`
RunDetectEnd ==
    /\ main.pc \in {"if", "elif"}
    /\ main.call = "is_speech_detected"
    /\ \E r \in DetectResults(worker.call) :
          main' = IF main.pc = "if"
                  THEN IF r /\ ~main.printed
                       THEN RunAt("read", main.running, TRUE, "none")
                       ELSE RunAt("elif", main.running, main.printed, "none")
                  ELSE IF ~r /\ main.printed
                       THEN RunAt("read", main.running, FALSE, "none")
                       ELSE RunAt("read", main.running, main.printed, "none")
    /\ UNCHANGED << audio_queue, result_queue, tts_playing, worker, speech_run,
                    players, capture, hist, wlast, vad_queue, env, hlast >>
    /\ UNCHANGED << segVars, routerVars >>

\* run(): except KeyboardInterrupt: self.is_running = False
RunInterrupt ==
    /\ main.pc \in {"read", "if", "elif"}
    /\ main.call = "none"
    /\ main' = RunAt("flush", FALSE, main.printed, "none")
    /\ UNCHANGED << audio_queue, result_queue, tts_playing, worker, speech_run,
                    players, capture, hist, wlast, vad_queue, env, hlast >>
    /\ UNCHANGED << segVars, routerVars >>

\* run(): self.vad.flush() is entered
RunFlushBegin ==
    /\ main.pc = "flush"
    /\ main.call = "none"
    /\ main' = [main EXCEPT !.call = "flush"]
    /\ UNCHANGED << audio_queue, result_queue, tts_playing, worker, speech_run,
                    players, capture, hist, wlast, vad_queue, env, hlast >>
    /\ UNCHANGED << segVars, routerVars >>

\* run(): flush() returns: the open speech run is completed as a segment or
\* discarded as too short
RunFlushEnd ==
    /\ main.pc = "flush"
    /\ main.call = "flush"
    /\ main' = RunAt("join", FALSE, main.printed, "none")
    /\ speech_run' = << >>
    /\ \E emit \in BOOLEAN :
          IF emit /\ speech_run # << >>
          THEN /\ vad_queue' = Append(vad_queue, speech_run)
               /\ hist' = [hist EXCEPT !.emitted = Append(@, speech_run)]
          ELSE UNCHANGED << vad_queue, hist >>
    /\ UNCHANGED << audio_queue, result_queue, tts_playing, worker, players,
                    capture, wlast, env, hlast >>
    /\ UNCHANGED << segVars, routerVars >>

\* run(): audio_thread.join(timeout=1.0); tts_thread.join(timeout=1.0)
RunJoin ==
    /\ main.pc = "join"
    /\ main' = [main EXCEPT !.pc = "stopped"]
    /\ UNCHANGED << audio_queue, result_queue, tts_playing, worker, speech_run,
                    players, capture, hist, wlast, vad_queue, env, hlast >>
    /\ UNCHANGED << segVars, routerVars >>

\* where process_audio goes with n samples in its buffer
AfterFeed(n) == IF n >= WINDOW_SIZE THEN "feed" ELSE "drain"

\* process_audio: `while self.is_running`; samples = self.audio_queue.get(
\* timeout=0.1); buffer = np.concatenate([buffer, samples]).  On queue.Empty
\* the loop goes round.
AudioGet ==
    /\ worker.pc = "get"
    /\ IF ~main.running
       THEN /\ worker' = AudioThreadAt("stopped", worker.buf, "none")
            /\ UNCHANGED audio_queue
       ELSE /\ audio_queue # << >>
            /\ audio_queue' = Tail(audio_queue)
            /\ worker' = AudioThreadAt(AfterFeed(worker.buf + Head(audio_queue)),
                                       worker.buf + Head(audio_queue), "none")
    /\ UNCHANGED << result_queue, tts_playing, speech_run, players, capture,
                    hist, wlast, vad_queue, main, env, hlast >>
    /\ UNCHANGED << segVars, routerVars >>

\* process_audio: self.vad.accept_waveform(buffer[:window_size]) is entered
AudioFeedBegin ==
    /\ worker.pc = "feed"
    /\ worker.call = "none"
    /\ worker' = [worker EXCEPT !.call = "accept_waveform"]
    /\ UNCHANGED << audio_queue, result_queue, tts_playing, speech_run, players,
                    capture, hist, wlast, vad_queue, main, env, hlast >>
    /\ UNCHANGED << segVars, routerVars >>

\* process_audio: accept_waveform returns; buffer = buffer[window_size:]
AudioFeedEnd ==
    LET w == Len(hist.fed) + 1
    IN  /\ worker.pc = "feed"
        /\ worker.call = "accept_waveform"
        /\ worker' = AudioThreadAt(AfterFeed(worker.buf - WINDOW_SIZE),
                                   worker.buf - WINDOW_SIZE, "none")
        /\ \E o \in WindowOutcomes :
              CASE o = "skip" ->
                     /\ hist' = [hist EXCEPT !.fed = Append(@, w)]
                     /\ UNCHANGED << speech_run, vad_queue >>
                [] o = "speech" ->
                     /\ hist' = [hist EXCEPT !.fed = Append(@, w)]
                     /\ speech_run' = Append(speech_run, w)
                     /\ UNCHANGED vad_queue
                [] o = "end" ->
                     /\ speech_run # << >>
                     /\ hist' = [hist EXCEPT !.fed = Append(@, w),
                                             !.emitted = Append(@, Append(speech_run, w))]
                     /\ speech_run' = << >>
                     /\ vad_queue' = Append(vad_queue, Append(speech_run, w))
        /\ UNCHANGED << audio_queue, result_queue, tts_playing, players, capture,
                        wlast, main, env, hlast >>
        /\ UNCHANGED << segVars, routerVars >>

\* process_audio: `while not self.vad.empty()`: empty() is entered
AudioDrainBegin ==
    /\ worker.pc = "drain"
    /\ worker.call = "none"
    /\ worker' = [worker EXCEPT !.call = "empty"]
    /\ UNCHANGED << audio_queue, result_queue, tts_playing, speech_run, players,
                    capture, hist, wlast, vad_queue, main, env, hlast >>
    /\ UNCHANGED << segVars, routerVars >>

\* process_audio: empty() returns; with a segment queued
\* get_speech_segment() is entered, otherwise the thread goes back to the
\* queue
AudioDrainTest ==
    /\ worker.pc = "drain"
    /\ worker.call = "empty"
    /\ worker' = IF vad_queue = << >>
                 THEN AudioThreadAt("get", worker.buf, "none")
                 ELSE [worker EXCEPT !.call = "get_speech_segment"]
    /\ UNCHANGED << audio_queue, result_queue, tts_playing, speech_run, players,
                    capture, hist, wlast, vad_queue, main, env, hlast >>
    /\ UNCHANGED << segVars, routerVars >>

\* process_audio: get_speech_segment() returns the oldest segment;
\* text = self.asr.transcribe(speech); a text gets a response that is put
\* on tts_queue; an exception is printed and the thread goes back to the
\* queue
AudioDrainTake ==
    /\ worker.pc = "drain"
    /\ worker.call = "get_speech_segment"
    /\ vad_queue' = IF vad_queue # << >> THEN Tail(vad_queue) ELSE vad_queue
    /\ \E rec \in {"text", "empty", "fail"} :
          /\ worker' = AudioThreadAt(IF rec = "fail" THEN "get" ELSE "drain",
                                     worker.buf, "none")
          /\ result_queue' = IF rec = "text" /\ vad_queue # << >>
                             THEN Append(result_queue, Head(vad_queue))
                             ELSE result_queue
    /\ UNCHANGED << audio_queue, tts_playing, speech_run, players, capture,
                    hist, wlast, main, env, hlast >>
    /\ UNCHANGED << segVars, routerVars >>

\* process_tts: text = self.tts_queue.get(timeout=0.1); synthesize and play
ProcessTts ==
    /\ main.running
    /\ result_queue # << >>
    /\ result_queue' = Tail(result_queue)
    /\ UNCHANGED << audio_queue, tts_playing, worker, speech_run, players,
                    capture, hist, wlast, vad_queue, main, env, hlast >>
    /\ UNCHANGED << segVars, routerVars >>

\* VoiceAssistant.run() after `self.is_running = True` and the start of the
\* two threads
InitThread ==
    /\ SegIdle
    /\ audio_queue = << >>
    /\ result_queue = << >>
    /\ tts_playing = FALSE
    /\ worker = AudioThreadAt("get", 0, "none")
    /\ speech_run = << >>
    /\ vad_queue = << >>
    /\ players = << >>
    /\ capture = [n |-> 0, cap |-> MaxThreadReads]
    /\ hist = [fed |-> << >>, emitted |-> << >>, dropped |-> << >>,
               texts |-> << >>, pushed |-> << >>]
    /\ wlast = [op |-> "none"]
    /\ main = RunAt("read", TRUE, FALSE, "none")
    /\ env = ThreadEnv
    /\ hlast = [op |-> "none", nfail |-> 0]
    /\ RouterIdle

NextThread ==
    \/ RunRead \/ RunDetectBegin \/ RunDetectEnd \/ RunInterrupt
    \/ RunFlushBegin \/ RunFlushEnd \/ RunJoin
    \/ AudioGet \/ AudioFeedBegin \/ AudioFeedEnd
    \/ AudioDrainBegin \/ AudioDrainTest \/ AudioDrainTake
    \/ ProcessTts

SpecThread == InitThread /\ [][NextThread]_vars

----------------------------------------------------------------------------
(* RouterStrategy (strats/router.py).  A string is a sequence of characters.
   A strategy of the chain is a record [id, does]: id is the order in which
   it was added, does is what its generate_response does with the text:
   "match" returns (True, response), "nomatch" returns (False, response),
   "raise" raises an Exception.  The response of strategy id is the
   one-character string << id >>. *)

EmptyString == << >>

\* "No strategies configured."
NoStrategiesMessage == << 0 >>

\* the texts given to generate_response: "" and a transcript
Texts == { EmptyString, << 1 >> }

Behaviours == {"match", "nomatch", "raise"}

\* the response string strategy s returns
ResponseOf(s) == << s.id >>

\* generate_response returning (matched, response), with the history of
\* the strategies it invoked, in order
Returns(matched, response, invoked) ==
    [kind |-> "ret", matched |-> matched, response |-> response,
     invoked |-> invoked]

\* the `for strategy in self.strategies` loop over the strategies still to
\* be tried
\* (faulty variant: no try/except round the call of the strategy)
RECURSIVE TryStrategies_NoCatch(_, _)
TryStrategies_NoCatch(strats, invoked) ==
    IF strats = << >> THEN Returns(FALSE, EmptyString, invoked)
    ELSE LET strategy == Head(strats)
             inv      == Append(invoked, strategy.id)
         IN  IF strategy.does = "raise"
             THEN [kind |-> "raise", matched |-> FALSE, response |-> EmptyString,
                   invoked |-> inv]
             ELSE IF strategy.does = "match"
                  THEN Returns(TRUE, ResponseOf(strategy), inv)
                  ELSE TryStrategies_NoCatch(Tail(strats), inv)

\* (faulty variant: the loop goes on after a match; the last match wins)
RECURSIVE TryStrategies_LastMatch(_, _)
TryStrategies_LastMatch(strats, invoked) ==
    IF strats = << >> THEN Returns(FALSE, EmptyString, invoked)
    ELSE LET strategy == Head(strats)
             rest     == TryStrategies_LastMatch(Tail(strats),
                                                 Append(invoked, strategy.id))
         IN  IF rest.matched \/ strategy.does # "match" THEN rest
             ELSE Returns(TRUE, ResponseOf(strategy), rest.invoked)

RECURSIVE TryStrategies(_, _)
TryStrategies(strats, invoked) ==
    IF strats = << >> THEN Returns(FALSE, EmptyString, invoked)
    ELSE LET strategy == Head(strats)
             inv      == Append(invoked, strategy.id)
         IN  IF strategy.does = "raise"
             THEN TryStrategies(Tail(strats), inv)
             ELSE IF strategy.does = "match"
                  THEN Returns(TRUE, ResponseOf(strategy), inv)
                  ELSE TryStrategies(Tail(strats), inv)

\* RouterStrategy.generate_response
generate_response(text, strats) ==
    IF text = EmptyString THEN Returns(FALSE, EmptyString, << >>)
    ELSE IF strats = << >> THEN Returns(FALSE, NoStrategiesMessage, << >>)
    ELSE TryStrategies(strats, << >>)

\* list.remove(x): the list without its first element equal to x
RECURSIVE ListRemove(_, _)
ListRemove(l, x) ==
    IF l = << >> THEN l
    ELSE IF Head(l) = x THEN Tail(l)
    ELSE << Head(l) >> \o ListRemove(Tail(l), x)

\* add_strategy
AddStrategy ==
    /\ rlast.added < MaxStrategies
    /\ \E b \in Behaviours :
          strategies' = Append(strategies, [id |-> rlast.added + 1, does |-> b])
    /\ rlast' = [op |-> "add", added |-> rlast.added + 1]
    /\ UNCHANGED << segVars, pipeVars >>

\* remove_strategy, of a strategy of the chain or of one that is not in it
RemoveStrategy ==
    /\ \E strategy \in [id : 1..rlast.added, does : Behaviours] :
          strategies' = IF strategy \in { strategies[i] : i \in DOMAIN strategies }
                        THEN ListRemove(strategies, strategy)
                        ELSE strategies
    /\ rlast' = [op |-> "remove", added |-> rlast.added]
    /\ UNCHANGED << segVars, pipeVars >>

\* clear_strategies
ClearStrategies ==
    /\ strategies' = << >>
    /\ rlast' = [op |-> "clear", added |-> rlast.added]
    /\ UNCHANGED << segVars, pipeVars >>

\* a call of generate_response
GenerateResponse ==
    /\ \E text \in Texts :
          rlast' = [op |-> "generate", added |-> rlast.added, text |-> text,
                    result |-> generate_response(text, strategies)]
    /\ UNCHANGED strategies
    /\ UNCHANGED << segVars, pipeVars >>

InitRouter == SegIdle /\ PipeIdle(0)

NextRouter == AddStrategy \/ RemoveStrategy \/ ClearStrategies \/ GenerateResponse

SpecRouter == InitRouter /\ [][NextRouter]_vars

----------------------------------------------------------------------------
(* Vocabulary of the properties *)

IsHigh(e) == e.p >= cfg.threshold

AllLow == \A i \in DOMAIN trace : ~IsHigh(trace[i])

\* number of below-threshold windows after which a silence run reaches
\* min_silence_samples
SilenceWindows ==
    IF cfg.min_silence_samples <= WINDOW_SIZE THEN 1
    ELSE (cfg.min_silence_samples + WINDOW_SIZE - 1) \div WINDOW_SIZE

\* a scripted run whose silence run has reached min_silence_samples
RunComplete == ~oracle.free /\ Len(trace) >= oracle.n + SilenceWindows

\* the windows trace[a] .. trace[b], concatenated in arrival order
RECURSIVE WindowsConcat(_, _)
WindowsConcat(a, b) ==
    IF a > b THEN << >> ELSE Concat(WindowsConcat(a, b - 1), trace[b].w)

----------------------------------------------------------------------------
(* C1: a run of above-threshold windows shorter than min_speech_samples,  *)
(* followed by below-threshold windows until the silence run reaches      *)
(* min_silence_samples, emits no segment, for every configuration.        *)
C1_ShortRunEmitsNothing ==
    (~oracle.free /\ oracle.n * WINDOW_SIZE < cfg.min_speech_samples)
        => finalized = << >>

(* C1, with the default configuration alone (0.5 s, 0.25 s). *)
C1_ShortRunEmitsNothingDefault ==
    (cfg = DefaultCfg /\ ~oracle.free /\ oracle.n * WINDOW_SIZE < cfg.min_speech_samples)
        => finalized = << >>

(* C2: as long as every classified window is below threshold,             *)
(* is_speech_detected() is false, empty() is true and the speech buffer   *)
(* never grows, after every call and after every window inside a call.    *)
C2_AllLowStaysSilent ==
    AllLow =>
        /\ ~is_speech_detected
        /\ empty
        /\ speech_buf = << >>
        /\ finalized = << >>
        /\ \A i \in DOMAIN trace :
              ~trace[i].post /\ trace[i].buflen = 0 /\ ~trace[i].emitted

C2_Witness ==
    /\ AllLow
    /\ Len(trace) >= 3
    /\ flushes > 0
    /\ \E i \in DOMAIN trace : trace[i].infl

(* C3: N above-threshold windows with N*window_size >= min_speech_samples *)
(* followed by below-threshold windows emit exactly one segment, when the *)
(* silence run reaches min_silence_samples and not before; the segment    *)
(* holds the N windows and every below-threshold window of the silence    *)
(* run, the completing one included.                                      *)
C3_LongRunEmitsOne ==
    (~oracle.free /\ oracle.n * WINDOW_SIZE >= cfg.min_speech_samples) =>
        /\ ~RunComplete => finalized = << >>
        /\ RunComplete =>
              /\ Len(finalized) = 1
              /\ ArrLen(finalized[1]) =
                    oracle.n * WINDOW_SIZE + SilenceWindows * WINDOW_SIZE
              /\ finalized[1] = WindowsConcat(1, oracle.n + SilenceWindows)
              /\ \A i \in DOMAIN trace :
                    trace[i].emitted <=> i = oracle.n + SilenceWindows

C3_Witness ==
    /\ cfg = DefaultCfg
    /\ ~oracle.free
    /\ oracle.n * WINDOW_SIZE >= cfg.min_speech_samples
    /\ Len(trace) > oracle.n + SilenceWindows
    /\ Len(finalized) = 1

(* C4: the concrete scenario.  threshold 0.5, min_silence 8000 samples,   *)
(* min_speech 4000 samples; 10 windows at 0.9, then 20 windows at 0.1.    *)
C4_Scenario == cfg = ScenarioCfg /\ ~oracle.free /\ oracle.n = 10

\* what the scenario expects, for a segment of seglen samples
C4_Expected(seglen) ==
    /\ Len(trace) <= 25 => empty /\ finalized = << >>
    /\ Len(trace) >= 26 =>
          /\ Len(finalized) = 1
          /\ ArrLen(finalized[1]) = seglen
          /\ trace[26].emitted /\ ~trace[26].post
          /\ ~is_speech_detected
          /\ returned = << >> => ~empty /\ segments = finalized
          /\ returned # << >> => empty /\ returned = finalized
          /\ \A i \in 27..Len(trace) : ~trace[i].emitted /\ ~trace[i].post

(* C4 as stated: empty() turns false at the 16th silence window, exactly  *)
(* one segment is retrieved, of 5120 + 15*512 samples, the state is       *)
(* Silence afterwards and the last 4 silence windows add nothing.         *)
C4_Original == C4_Scenario => C4_Expected(10 * WINDOW_SIZE + 15 * WINDOW_SIZE)

(* C4 amended: the same, the segment being of 5120 + 16*512 samples: the  *)
(* 16th silence window is appended before the silence run is tested.      *)
C4_Amended == C4_Scenario => C4_Expected(10 * WINDOW_SIZE + 16 * WINDOW_SIZE)

C4_Witness ==
    /\ C4_Scenario
    /\ Len(trace) = 30
    /\ returned # << >>
    /\ ArrLen(ret) = 13312

(* C5: Silence -> Speech only on a window with probability >= threshold;  *)
(* Speech -> Silence, while windows are processed, only on a below-       *)
(* threshold window ending an unbroken run of below-threshold windows of  *)
(* at least min_silence_samples samples; an above-threshold window resets *)
(* the silence-run counter to 0.                                          *)
C5_Transitions ==
    \A i \in DOMAIN trace :
        LET e == trace[i]
        IN  /\ (~e.pre /\ e.post) => IsHigh(e)
            /\ (e.pre /\ ~e.post) =>
                  ~IsHigh(e) /\ e.lowrun >= cfg.min_silence_samples
            /\ IsHigh(e) => e.sil = 0

C5_Witness ==
    \E i, j, k \in DOMAIN trace :
        /\ i < j /\ j < k
        /\ ~trace[i].pre /\ trace[i].post
        /\ ~IsHigh(trace[j - 1]) /\ trace[j - 1].post
        /\ IsHigh(trace[j]) /\ trace[j].pre
        /\ trace[k].pre /\ ~trace[k].post /\ ~trace[k].infl
        /\ \A m \in i..k : trace[m].fl = trace[i].fl

(* C6: two runs of above-threshold windows separated by a pause shorter   *)
(* than min_silence_samples are one utterance: no segment at the pause,   *)
(* the state stays Speech, and the segment emitted when the final silence *)
(* run completes holds every window of both runs, of the pause and of the *)
(* final silence run, in arrival order.                                   *)

\* no flush() between the classification of trace[a] and that of trace[e]
NoFlushBetween(a, e) ==
    \A m \in a..e : trace[m].fl = trace[a].fl /\ ~trace[m].infl

\* trace[a..b] speech from Silence, trace[b+1..c] a short pause,
\* trace[c+1..d] speech, trace[d+1..e] the silence run that completes at e
TwoRuns(a, b, c, d, e) ==
    /\ ~trace[a].pre
    /\ \A m \in a..b : IsHigh(trace[m])
    /\ \A m \in (b + 1)..c : ~IsHigh(trace[m])
    /\ (c - b) * WINDOW_SIZE < cfg.min_silence_samples
    /\ \A m \in (c + 1)..d : IsHigh(trace[m])
    /\ \A m \in (d + 1)..e : ~IsHigh(trace[m])
    /\ (e - d) * WINDOW_SIZE >= cfg.min_silence_samples
    /\ (e - d - 1) * WINDOW_SIZE < cfg.min_silence_samples
    /\ NoFlushBetween(a, e)

C6_PauseNotSplit ==
    \A a \in DOMAIN trace : \A b \in a..Len(trace) : \A c \in (b + 1)..Len(trace) :
    \A d \in (c + 1)..Len(trace) : \A e \in (d + 1)..Len(trace) :
        TwoRuns(a, b, c, d, e) =>
            /\ \A m \in a..(e - 1) : trace[m].post /\ ~trace[m].emitted
            /\ ~trace[e].post
            /\ trace[e].emitted <=>
                  (e - a + 1) * WINDOW_SIZE >= cfg.min_speech_samples
            /\ trace[e].emitted =>
                  finalized[trace[e].nfin] = WindowsConcat(a, e)

C6_Witness ==
    \E a \in DOMAIN trace : \E b \in a..Len(trace) : \E c \in (b + 1)..Len(trace) :
    \E d \in (c + 1)..Len(trace) : \E e \in (d + 1)..Len(trace) :
        /\ TwoRuns(a, b, c, d, e)
        /\ trace[e].emitted
        /\ ArrLen(finalized[trace[e].nfin]) = (e - a + 1) * WINDOW_SIZE

(* C7: flush() with an empty accumulation buffer in state Silence emits   *)
(* no segment, runs no inference and leaves the state Silence and the     *)
(* completed-segment queue as they were.                                  *)
C7_FlushIdle ==
    (/\ last.op = "flush"
     /\ last.pre.buffer = << >>
     /\ ~last.pre.in_speech) =>
        /\ segments = last.pre.segments
        /\ finalized = last.pre.finalized
        /\ hc = last.pre.hc
        /\ trace = last.pre.trace
        /\ ~is_speech_detected
        /\ speech_buf = << >>
        /\ buffer = << >>

C7_Witness ==
    /\ last.op = "flush"
    /\ last.pre.buffer = << >>
    /\ ~last.pre.in_speech
    /\ last.pre.segments # << >>
    /\ hc >= 2

(* C8: flush() with a partial window buffered and an open speech run of   *)
(* at least min_speech_samples samples emits exactly one segment whatever *)
(* the padded window is classified as, and the segment is the speech      *)
(* buffer followed by the zero-padded window.                             *)
C8_Pre ==
    /\ last.op = "flush"
    /\ ArrLen(last.pre.buffer) > 0
    /\ ArrLen(last.pre.buffer) < WINDOW_SIZE
    /\ last.pre.in_speech
    /\ ArrLen(last.pre.speech_buf) >= cfg.min_speech_samples

C8_PaddedWindow ==
    Concat(last.pre.buffer, Zeros(WINDOW_SIZE - ArrLen(last.pre.buffer)))

C8_FlushEmitsOne ==
    C8_Pre =>
        /\ finalized =
              Append(last.pre.finalized, Concat(last.pre.speech_buf, C8_PaddedWindow))
        /\ segments =
              Append(last.pre.segments, Concat(last.pre.speech_buf, C8_PaddedWindow))

\* the padded window classified as silence, ending the silence run
C8_Witness ==
    /\ C8_Pre
    /\ Len(trace) = Len(last.pre.trace) + 1
    /\ ~IsHigh(trace[Len(trace)])
    /\ trace[Len(trace)].emitted

\* the padded window classified as speech
C8_WitnessHigh ==
    /\ C8_Pre
    /\ Len(trace) = Len(last.pre.trace) + 1
    /\ IsHigh(trace[Len(trace)])

(* C9 amended: after flush() the state is Silence and the speech buffer   *)
(* and the accumulation buffer are empty; the speech buffer still open    *)
(* once the padded tail window has been processed is emitted as one       *)
(* segment if it then holds at least min_speech_samples samples, whatever *)
(* the silence run, and is discarded without emitting otherwise; a speech *)
(* buffer that is long enough when flush() is called is always emitted.   *)

\* the segmenter inside flush(), after _process_buffer and before the
\* finalisation: is a speech run open, how long is the speech buffer, how
\* many segments have been finalized
C9_Mid ==
    IF Len(trace) > Len(last.pre.trace)
    THEN [ open |-> trace[Len(trace)].post,
           len  |-> trace[Len(trace)].buflen,
           nfin |-> trace[Len(trace)].nfin ]
    ELSE [ open |-> last.pre.in_speech,
           len  |-> ArrLen(last.pre.speech_buf),
           nfin |-> Len(last.pre.finalized) ]

C9_Amended ==
    last.op = "flush" =>
        /\ ~is_speech_detected
        /\ speech_buf = << >>
        /\ buffer = << >>
        /\ (C9_Mid.open /\ C9_Mid.len >= cfg.min_speech_samples) =>
              /\ Len(finalized) = C9_Mid.nfin + 1
              /\ ArrLen(finalized[Len(finalized)]) = C9_Mid.len
        /\ ~(C9_Mid.open /\ C9_Mid.len >= cfg.min_speech_samples) =>
              Len(finalized) = C9_Mid.nfin
        /\ (last.pre.in_speech
              /\ ArrLen(last.pre.speech_buf) >= cfg.min_speech_samples) =>
              Len(finalized) = Len(last.pre.finalized) + 1

\* an open speech buffer that is long enough, with a silence run under way
C9_Witness ==
    /\ last.op = "flush"
    /\ last.pre.in_speech
    /\ last.pre.silence_samples > 0
    /\ last.pre.silence_samples < cfg.min_silence_samples
    /\ ArrLen(last.pre.speech_buf) >= cfg.min_speech_samples
    /\ Len(finalized) = Len(last.pre.finalized) + 1

\* an open speech buffer that is too short
C9_WitnessShort ==
    /\ last.op = "flush"
    /\ C9_Mid.open
    /\ C9_Mid.len < cfg.min_speech_samples
    /\ finalized = last.pre.finalized

(* C9 as stated, the open speech buffer being the one flush() is called  *)
(* with: after flush() the state is Silence and both buffers are empty;   *)
(* an open speech buffer of at least min_speech_samples samples is        *)
(* emitted as one segment, a shorter one emits nothing.                   *)
C9_Original ==
    last.op = "flush" =>
        /\ ~is_speech_detected
        /\ speech_buf = << >>
        /\ buffer = << >>
        /\ (last.pre.in_speech
              /\ ArrLen(last.pre.speech_buf) >= cfg.min_speech_samples) =>
              Len(finalized) = Len(last.pre.finalized) + 1
        /\ (last.pre.in_speech
              /\ ArrLen(last.pre.speech_buf) < cfg.min_speech_samples) =>
              finalized = last.pre.finalized

(* C10: segments are retrieved in the order they were finalized, each at  *)
(* most once: the segments returned so far followed by the segments still *)
(* queued are the segments finalized so far, which are all different.     *)
C10_Fifo ==
    /\ finalized = returned \o segments
    /\ \A i, j \in DOMAIN finalized : i # j => finalized[i] # finalized[j]
    /\ last.op = "get" =>
          ret = IF last.pre.segments = << >> THEN NoneValue
                ELSE finalized[Len(returned)]

C10_Witness ==
    /\ Len(returned) >= 2
    /\ segments # << >>
    /\ flushes > 0

----------------------------------------------------------------------------
\* the samples of an array that come from the input stream (flush padding
\* left out), in the order they have in the array
RECURSIVE RealPart(_)
RealPart(a) ==
    IF a = << >> THEN << >>
    ELSE IF Head(a).z THEN RealPart(Tail(a))
         ELSE Concat(<< Head(a) >>, RealPart(Tail(a)))

\* C11: after every accept_waveform call the accumulation buffer holds fewer
\* than WINDOW_SIZE samples, exactly (previous length + len(samples)) mod
\* WINDOW_SIZE; the call classifies (previous length + len(samples)) div
\* WINDOW_SIZE windows; every classified window has exactly WINDOW_SIZE
\* samples; and the classified windows, in the order they were classified,
\* followed by the leftover are exactly the input stream: every input sample
\* is in exactly one window or in the leftover, in arrival order.
C11_WindowPartition ==
    /\ ArrLen(buffer) < WINDOW_SIZE
    /\ last.op = "accept" =>
          /\ ArrLen(buffer) = (ArrLen(last.pre.buffer) + last.n) % WINDOW_SIZE
          /\ Len(trace) - Len(last.pre.trace)
                = (ArrLen(last.pre.buffer) + last.n) \div WINDOW_SIZE
    /\ \A i \in DOMAIN trace : ArrLen(trace[i].w) = WINDOW_SIZE
    /\ RealPart(Concat(WindowsConcat(1, Len(trace)), buffer)) = Stream(0, fed)

\* an accept_waveform call that found a leftover, completed it to a window
\* with the head of its chunk and left the rest of the chunk as the leftover,
\* after an earlier call had classified two windows at once
C11_Witness ==
    /\ last.op = "accept"
    /\ ArrLen(last.pre.buffer) > 0
    /\ Len(trace) > Len(last.pre.trace)
    /\ Len(last.pre.trace) >= 2
    /\ ArrLen(buffer) > 0

\* C12: after flush() the segmenter is in the state of a fresh instance:
\* Silence, silence-run counter 0, empty speech buffer, empty accumulation
\* buffer, zero recurrent state, empty segment queue.
C12_FlushRestoresInitialState ==
    last.op = "flush" =>
        /\ in_speech = FALSE
        /\ silence_samples = 0
        /\ speech_buf = << >>
        /\ buffer = << >>
        /\ hc = 0
        /\ segments = << >>

\* C13: the open speech buffer never holds more than
\* buffer_size_seconds * sample_rate samples.
C13_SpeechBufferCapped ==
    /\ ArrLen(speech_buf) <= cfg.buffer_size_samples
    /\ \A i \in DOMAIN trace : trace[i].buflen <= cfg.buffer_size_samples

----------------------------------------------------------------------------
(* Vocabulary of the pipeline properties *)

\* the elements of a sequence
Range(q) == { q[i] : i \in DOMAIN q }

\* a playback task between its start and its completion (the guard delay
\* and the clearing of the signal are part of the task)
ActivePlayers == { i \in DOMAIN players : players[i] # "done" }

\* the number of dropped frames the program has counted: _audio_callback
\* counts nothing (`except queue.Full: pass`), no counter exists
drop_counter == 0

\* C14: when the classifier call fails for one window the worker keeps
\* processing: it is not stopped, and the failed frame changed nothing of
\* the open speech run.
C14_WorkerSurvivesClassifierFailure ==
    (wlast.op = "process" /\ wlast.outcome = "fail") =>
        /\ worker.pc # "stopped"
        /\ wlast.post.run = wlast.pre.run

\* C15: with a channel of capacity K = 100, after K + 1 frames have been
\* enqueued with no consumption the channel holds exactly the first K frames
\* in arrival order, the (K+1)-th frame was dropped, the drop counter is 1;
\* and the channel never holds more than K frames.
C15_DropOnFull ==
    /\ Len(audio_queue) <= AUDIO_QUEUE_MAXSIZE
    /\ capture.n = AUDIO_QUEUE_MAXSIZE + 1 =>
          /\ Len(audio_queue) = AUDIO_QUEUE_MAXSIZE
          /\ \A i \in DOMAIN audio_queue : audio_queue[i].id = i
          /\ Len(hist.dropped) = 1
          /\ hist.dropped[1].id = AUDIO_QUEUE_MAXSIZE + 1
          /\ drop_counter = 1

\* the part of C15 that does not involve a counter: capacity, order, and the
\* frames that do not fit are dropped
C15_DropOnFullUncounted ==
    /\ Len(audio_queue) <= AUDIO_QUEUE_MAXSIZE
    /\ \A i \in DOMAIN audio_queue : audio_queue[i].id = i
    /\ \A i \in DOMAIN hist.dropped :
          hist.dropped[i].id = AUDIO_QUEUE_MAXSIZE + i
    /\ Len(audio_queue) + Len(hist.dropped) = capture.n

\* what "consumed and discarded" means for the worker's last pass: the frame
\* reached neither the resampler nor the segmenter, and the segmenter's
\* speech state, open run, completed segments and the result channel are
\* as they were
Discarded ==
    /\ wlast.post = wlast.pre
    /\ wlast.f \notin Range(wlast.post.fed)

\* C16 as stated: every frame the worker dequeues while the suppression
\* signal is set is consumed and discarded.
C16_Original ==
    (wlast.op = "process" /\ wlast.supget) => Discarded

\* C16: every frame for which the worker finds the suppression signal set
\* when it tests it (after the frame has been dequeued, before anything is
\* done with it) is consumed and discarded: it reaches neither the resampler
\* nor the segmenter, and is_speech_detected(), the open run, the segment
\* queue and the result channel are unchanged.
C16_Amended ==
    (wlast.op = "process" /\ wlast.supchk) => Discarded

\* a frame discarded under suppression while a speech run is open and a
\* frame has been given to the segmenter before
C16_Witness ==
    /\ wlast.op = "process"
    /\ wlast.supchk
    /\ wlast.pre.run # << >>
    /\ wlast.f \notin Range(hist.fed)

\* C17: no frame captured while the suppression signal was set (playback or
\* guard delay) is passed to the resampler or the segmenter.
C17_NoSuppressedFrameProcessed ==
    \A i \in DOMAIN hist.fed : ~hist.fed[i].sup

\* C18: no segment the segmenter emits contains a frame captured before a
\* playback together with a frame captured after it.
C18_NoStitchedSegment ==
    \A k \in DOMAIN hist.emitted :
        \A i, j \in DOMAIN hist.emitted[k] :
            ~( /\ hist.emitted[k][i].era < hist.emitted[k][j].era
               /\ ~hist.emitted[k][j].sup )

\* C19: if any playback is in progress then the suppression signal is set.
C19_PlaybackImpliesSuppression ==
    (\E i \in DOMAIN players : players[i] = "playing") => tts_playing

\* C20: at most one playback task is active at a time.
C20_SinglePlayback ==
    Cardinality(ActivePlayers) <= 1

----------------------------------------------------------------------------
\* C21: when the worker has finished handling a dequeued frame every
\* completed segment has been taken from the segmenter and recognized: the
\* segmenter's completed-segment queue is empty whenever the worker is about
\* to read a frame or has just read one.
C21_SegmentsDrained ==
    worker.pc \in {"get", "have"} =>
        /\ vad_queue = << >>
        /\ Len(hist.texts) = Len(hist.emitted)

\* the worker is back at the channel after a frame that completed a segment of
\* several frames, a second completed segment
C21_Witness ==
    /\ worker.pc = "get"
    /\ wlast.op = "process"
    /\ wlast.outcome \in Ends
    /\ wlast.pre.run # << >>
    /\ Len(hist.emitted) >= 2

\* the segments of those entries of t whose recognized text is not empty
RECURSIVE WithText(_)
WithText(t) ==
    IF t = << >> THEN << >>
    ELSE IF Head(t).text = "text" THEN << Head(t).seg >> \o WithText(Tail(t))
         ELSE WithText(Tail(t))

\* the segments of the transcription messages of a channel, in channel order
RECURSIVE Transcripts(_)
Transcripts(q) ==
    IF q = << >> THEN << >>
    ELSE IF Head(q).type = "transcription"
         THEN << Head(q).seg >> \o Transcripts(Tail(q))
         ELSE Transcripts(Tail(q))

\* b is what remains of a after some of its first elements were taken
IsSuffix(b, a) ==
    /\ Len(b) <= Len(a)
    /\ b = SubSeq(a, Len(a) - Len(b) + 1, Len(a))

\* C22: segments are recognized in the order they were finalized; the
\* transcripts pushed on the result channel are, in that order, exactly those
\* of the segments with non-empty text (a segment with empty text pushes
\* nothing); and the channel holds them in the order they were pushed.
C22_TranscriptOrder ==
    /\ \A i \in DOMAIN hist.texts : hist.texts[i].seg = hist.emitted[i]
    /\ hist.pushed = WithText(hist.texts)
    /\ IsSuffix(Transcripts(result_queue), hist.pushed)

\* two transcripts pushed, with a segment of empty text finalized before the
\* second one, and both still on the channel
C22_Witness ==
    /\ Len(hist.pushed) = 2
    /\ Len(hist.texts) = 3
    /\ hist.texts[2].text = "empty"
    /\ Transcripts(result_queue) = hist.pushed

\* C26: when the recognizer fails on one segment the worker stays alive (and
\* so goes on dequeuing frames and recognizing later segments).
C26_WorkerSurvivesRecognitionFailure ==
    (wlast.op = "process" /\ wlast.outcome = "end_fail") =>
        worker.pc # "stopped"

----------------------------------------------------------------------------
\* C23: shutdown always completes, whatever the state of the frame channel
\* and of the worker: run() is never left waiting for good to push the
\* sentinel, that is, it is never at the sentinel put with the channel full
\* and the worker gone.
C23_ShutdownNotStuck ==
    ~( /\ main.pc = "put"
       /\ Len(audio_queue) = AUDIO_QUEUE_MAXSIZE
       /\ worker.pc = "stopped" )

\* C24: once the running flag is cleared every loop stops at its next
\* channel read: the worker takes no frame from the frame channel to work on
\* it after the flag has been cleared.
C24_WorkerStopsOnFlag ==
    worker.pc = "have" => worker.runget

\* C25: the worker is never terminated while it is working on a frame; its
\* exit happens at a channel read.
C25_CooperativeExit ==
    worker.pc = "terminated" => worker.exit # "have"

\* C27: a failure to initialise the recognizer or the classifier aborts the
\* run: once the failure is known (nothing about it is left on the result
\* channel) run() does not go on capturing with no worker, up to a full
\* frame channel.
C27_InitFailureAbortsRun ==
    ( /\ worker.pc = "stopped"
      /\ worker.exit = "init"
      /\ \A i \in DOMAIN result_queue : result_queue[i].type # "error"
      /\ Len(audio_queue) = AUDIO_QUEUE_MAXSIZE )
        => main.pc # "running"

----------------------------------------------------------------------------
\* C28: a failure of the response generator or of the synthesizer while a
\* transcript is handled does not stop the result-handling loop: the pass
\* starts no playback and leaves the suppression signal as it was, and the
\* loop stays alive for the later transcripts.
C28_HandlerSurvivesFailure ==
    /\ main.handler = "alive"
    /\ (hlast.op = "handle" /\ hlast.raised) =>
          /\ ~hlast.started
          /\ hlast.tts_post = hlast.tts_pre

\* a transcript handled and played after the handling of an earlier one failed
C28_Witness ==
    /\ hlast.op = "handle"
    /\ hlast.type = "transcription"
    /\ ~hlast.raised
    /\ hlast.started
    /\ hlast.nfail >= 1

\* C29: when the response generator returns matched = false the synthesizer
\* is not invoked, no playback starts and the suppression signal is not set,
\* whatever the response string.
C29_NoMatchNoSynthesis ==
    ( /\ hlast.op = "handle"
      /\ hlast.type = "transcription"
      /\ hlast.gen.kind = "ret"
      /\ ~hlast.gen.matched )
        => /\ ~hlast.called
           /\ ~hlast.started
           /\ hlast.tts_post = hlast.tts_pre

\* C30: in both assistant classes the text given to the synthesizer is the
\* response string of the pair returned by the response generator.
C30_SynthesizerGetsResponse ==
    (hlast.op = "handle" /\ hlast.called) =>
        hlast.arg = Str(hlast.gen.response)

----------------------------------------------------------------------------
\* C37: between operations, in Silence the open speech buffer is empty; in
\* Speech the speech buffer is not empty and its first window is a window
\* the classifier answered at or above the threshold.
C37_StateMatchesBuffer ==
    /\ ~in_speech => speech_buf = << >>
    /\ in_speech =>
          /\ speech_buf # << >>
          /\ \E i \in DOMAIN trace :
                /\ trace[i].w = Take(speech_buf, WINDOW_SIZE)
                /\ IsHigh(trace[i])

\* a speech run opened after below-threshold windows, a silence run under
\* way in it
C37_Witness ==
    /\ in_speech
    /\ ~IsHigh(trace[1])
    /\ silence_samples > 0
    /\ ArrLen(speech_buf) >= 2 * WINDOW_SIZE

\* C38: every segment ever appended to the completed-segment queue, by
\* accept_waveform or by flush(), has a length that is a positive multiple
\* of WINDOW_SIZE and at least min_speech_samples, starts with a window
\* classified at or above the threshold, and is a run of consecutively
\* classified windows in arrival order.
C38_SegmentsWellFormed ==
    \A k \in DOMAIN finalized :
        LET n == ArrLen(finalized[k]) \div WINDOW_SIZE
        IN  /\ ArrLen(finalized[k]) > 0
            /\ ArrLen(finalized[k]) % WINDOW_SIZE = 0
            /\ ArrLen(finalized[k]) >= cfg.min_speech_samples
            /\ \E a \in 1..(Len(trace) - n + 1) :
                  /\ IsHigh(trace[a])
                  /\ Head(trace[a].w) = Take(finalized[k], Head(trace[a].w).n)[1]
                  /\ finalized[k] = WindowsConcat(a, a + n - 1)

\* a segment emitted by accept_waveform, then a segment emitted in flush()
\* that ends with the padded tail window
C38_Witness ==
    /\ Len(finalized) >= 2
    /\ trace[Len(trace)].infl
    /\ trace[Len(trace)].nfin = 1
    /\ \E r \in DOMAIN finalized[2] : finalized[2][r].z

\* C39: between operations the silence-run counter is a multiple of
\* WINDOW_SIZE, is less than min_silence_samples, is 0 in Silence, and in
\* Speech is WINDOW_SIZE times the number of consecutive below-threshold
\* windows at the end of the speech buffer.
C39_SilenceCounter ==
    /\ silence_samples % WINDOW_SIZE = 0
    /\ cfg.min_silence_samples > 0 => silence_samples < cfg.min_silence_samples
    /\ ~in_speech => silence_samples = 0
    /\ in_speech => silence_samples = trace[Len(trace)].lowrun

\* C40: get_speech_segment() on an empty queue returns None and changes
\* nothing; on a non-empty queue it returns and removes exactly the oldest
\* segment; in both cases the Speech/Silence state, the silence-run counter,
\* the speech buffer, the accumulation buffer and the recurrent state are
\* as before.
C40_GetSpeechSegment ==
    last.op = "get" =>
        /\ in_speech = last.pre.in_speech
        /\ silence_samples = last.pre.silence_samples
        /\ speech_buf = last.pre.speech_buf
        /\ buffer = last.pre.buffer
        /\ hc = last.pre.hc
        /\ last.pre.segments = << >> =>
              /\ ret = NoneValue
              /\ segments = << >>
        /\ last.pre.segments # << >> =>
              /\ ret = last.pre.segments[1]
              /\ Len(segments) = Len(last.pre.segments) - 1
              /\ \A i \in DOMAIN segments : segments[i] = last.pre.segments[i + 1]

\* the oldest of two queued segments taken while a speech run is open and
\* the accumulation buffer holds a leftover
C40_Witness ==
    /\ last.op = "get"
    /\ Len(last.pre.segments) >= 2
    /\ last.pre.in_speech
    /\ last.pre.buffer # << >>

----------------------------------------------------------------------------
\* the segmenter after a single accept_waveform call on a fresh instance
\* with the first k samples of the input stream
SingleCall(k) ==
    ProcessBuffer([Fresh EXCEPT !.buffer = Stream(0, k)],
                  SubSeq(oracle.ans, 1, k \div WINDOW_SIZE))

\* C32: however the sample sequence is split into consecutive
\* accept_waveform calls, empty ones included, the classified windows, the
\* state at every window boundary and the emitted segments are those of a
\* single accept_waveform call with the whole sequence; so are the state
\* and the buffers the calls leave.
C32_ChunkingIndependent ==
    LET one == SingleCall(fed)
    IN  /\ trace = one.trace
        /\ finalized = one.finalized
        /\ in_speech = one.in_speech
        /\ silence_samples = one.silence_samples
        /\ speech_buf = one.speech_buf
        /\ buffer = one.buffer
        /\ hc = one.hc
        /\ returned \o segments = one.segments

\* a sequence delivered in more than one call, the last call half a window
\* that completes a window with the leftover of the calls before it, the
\* window ending a segment
C32_Witness ==
    /\ oracle.fixed
    /\ last.op = "accept"
    /\ last.n < WINDOW_SIZE
    /\ last.pre.buffer # << >>
    /\ Len(trace) > Len(last.pre.trace)
    /\ trace[Len(trace)].emitted
    /\ fed > 2 * WINDOW_SIZE

----------------------------------------------------------------------------
\* C31: the segmenter has one sequential caller: in no reachable state is
\* run() inside a segmenter call (is_speech_detected, flush) while the
\* process_audio thread is inside one (accept_waveform, empty,
\* get_speech_segment).
C31_SingleCaller ==
    ~(main.call # "none" /\ worker.call # "none")

\* run() inside flush() while process_audio is inside accept_waveform
C31_FlushDuringAccept ==
    ~(main.call = "flush" /\ worker.call = "accept_waveform")

----------------------------------------------------------------------------
(* Vocabulary of the router properties *)

\* position in the chain of the first strategy that reports a match, 0 if
\* there is none
FirstMatch ==
    IF \E i \in DOMAIN strategies : strategies[i].does = "match"
    THEN CHOOSE i \in DOMAIN strategies :
            /\ strategies[i].does = "match"
            /\ \A j \in 1..(i - 1) : strategies[j].does # "match"
    ELSE 0

\* the ids of the first k strategies of the chain, in list order
Ids(k) == [i \in 1..k |-> strategies[i].id]

\* a call of generate_response with a non-empty text has just returned or
\* raised
Routed == rlast.op = "generate" /\ rlast.text # EmptyString

\* C33 as stated: the strategies are tried in list order and the result is
\* (True, response) of the first strategy that reports matched, the
\* strategies after it not being invoked; an empty text gives (False, "")
\* with no strategy invoked; if no strategy matches the result is
\* (False, "").
C33_Original ==
    /\ (rlast.op = "generate" /\ rlast.text = EmptyString) =>
          rlast.result = Returns(FALSE, EmptyString, << >>)
    /\ (Routed /\ FirstMatch > 0) =>
          rlast.result = Returns(TRUE, ResponseOf(strategies[FirstMatch]),
                                 Ids(FirstMatch))
    /\ (Routed /\ FirstMatch = 0) =>
          /\ rlast.result.kind = "ret"
          /\ ~rlast.result.matched
          /\ rlast.result.response = EmptyString

\* What the code does: as stated, except that "no strategy matches" gives
\* (False, "") only when the chain is not empty, every strategy having been
\* invoked in list order; with an empty chain a non-empty text gives
\* (False, "No strategies configured.").
C33_Amended ==
    /\ (rlast.op = "generate" /\ rlast.text = EmptyString) =>
          rlast.result = Returns(FALSE, EmptyString, << >>)
    /\ (Routed /\ FirstMatch > 0) =>
          rlast.result = Returns(TRUE, ResponseOf(strategies[FirstMatch]),
                                 Ids(FirstMatch))
    /\ (Routed /\ FirstMatch = 0 /\ strategies # << >>) =>
          rlast.result = Returns(FALSE, EmptyString, Ids(Len(strategies)))
    /\ (Routed /\ strategies = << >>) =>
          rlast.result = Returns(FALSE, NoStrategiesMessage, << >>)

\* a chain of three strategies whose second is the first to match and whose
\* third matches too
C33_Witness ==
    /\ Routed
    /\ Len(strategies) = 3
    /\ FirstMatch = 2
    /\ strategies[3].does = "match"
    /\ rlast.result.invoked = Ids(2)

\* C34: a strategy that raises is treated as not matched: the call returns,
\* the strategies after it are tried in list order, and the result is that
\* of the first strategy that matches, or (False, "") if none does.
C34_RaiseIsNoMatch ==
    (Routed /\ \E i \in DOMAIN strategies : strategies[i].does = "raise") =>
        /\ rlast.result.kind = "ret"
        /\ rlast.result.invoked =
              Ids(IF FirstMatch > 0 THEN FirstMatch ELSE Len(strategies))
        /\ rlast.result.matched = (FirstMatch > 0)
        /\ rlast.result.response =
              IF FirstMatch > 0 THEN ResponseOf(strategies[FirstMatch])
              ELSE EmptyString

\* a strategy that raises, then one that does not match, then one that
\* matches
C34_Witness ==
    /\ Routed
    /\ Len(strategies) = 3
    /\ strategies[1].does = "raise"
    /\ strategies[2].does = "nomatch"
    /\ strategies[3].does = "match"
    /\ rlast.result.matched

----------------------------------------------------------------------------
\* C35: every time the suppression signal is set it is eventually cleared,
\* also when the playback raises or is cut short.
C35_EventuallyCleared == tts_playing ~> ~tts_playing

\* the suppression signal set with no playback thread left to clear it
C35_Orphaned ==
    /\ tts_playing
    /\ \A i \in DOMAIN players : players[i] \in {"failed", "done"}

\* once the signal is set with no playback thread left and no message on the
\* result channel it stays so, whatever frames arrive: the worker discards
\* them all
C35_OrphanedForever ==
    [][(C35_Orphaned /\ result_queue = << >>)
          => (C35_Orphaned /\ result_queue = << >>)']_vars

----------------------------------------------------------------------------
\* the worker has left its loop because it dequeued the sentinel
ExitedBySentinel == worker.pc = "stopped" /\ worker.exit = "sentinel"

\* the frames in a queue
FramesIn(q) == { q[i] : i \in DOMAIN q } \ {Sentinel}

\* C36: the worker that dequeues the sentinel leaves its loop, whether the
\* suppression signal is set or not; by then it has dequeued every frame
\* that was enqueued before the sentinel; and once it has dequeued the
\* sentinel it takes no frame and passes none to the segmenter.
C36_SentinelStops ==
    /\ [](ExitedBySentinel =>
            /\ FramesIn(audio_queue) = {}
            /\ worker.indata = NoneValue)
    /\ [][ /\ (worker.pc = "get" /\ audio_queue # << >>
                 /\ Head(audio_queue) = Sentinel /\ audio_queue' # audio_queue)
              => ExitedBySentinel'
           /\ ExitedBySentinel =>
                 /\ ExitedBySentinel'
                 /\ hist' = hist
                 /\ audio_queue' = audio_queue ]_vars

\* the worker stopped by the sentinel while the suppression signal is set,
\* after it had given a frame to the segmenter and discarded another
C36_Witness ==
    /\ ExitedBySentinel
    /\ tts_playing
    /\ hist.fed # << >>
    /\ wlast.op = "process"
    /\ wlast.outcome = "discard"

====
